---- MODULE Spec2Model ----
(***************************************************************************)
(* RedisPubsub (src/unnamed/part_000): a namespaced pub/sub event bus, a   *)
(* JSON cache facade and a TTL lock on top of one shared redis store.      *)
(*                                                                         *)
(* Names (prefix, event names, keys, channels) are sequences of one        *)
(* character strings, so that `${prefix}.${key}` is a concatenation and    *)
(* split/join in the 'message' handler is computed and not assumed.        *)
(***************************************************************************)
EXTENDS Integers, Sequences, FiniteSets, TLC

(***************************************************************************)
(* Bounds of the model.                                                    *)
(***************************************************************************)
MaxLocks == 3
MaxErrors == 1
MaxRegs == 2
MaxEmits == 2
MaxCacheOps == 3
MaxPrefixLen == 2
MaxNameLen == 3

(***************************************************************************)
(* Program constants and inputs.                                           *)
(***************************************************************************)
DefaultTimeout == 5000
Epsilon == 1

\* config.get('redis.prefix') || config.get('domain')
Prefix == <<"p">>
Dot == <<".">>
LockSeg == <<"l", "o", "c", "k", ".">>

Callers == {"A", "B", "C"}
LockNames == {<<"x">>, <<"y">>}
Timeouts == {DefaultTimeout}
\* values Date.now() may return
Times == {0}

NoName == <<>>

VARIABLES
    store,      \* the store's key space: external key -> [val, px, by]
    pc,         \* position of each caller's lock call
    lname,      \* the key argument of the caller's lock call
    ltimeout,   \* the timeout argument of the caller's lock call
    lockTimeout,\* the payload computed by the current attempt
    reply,      \* (err, result) the store gave the current attempt
    retried,    \* the current call has set its retry timer at least once
    lost,       \* the record the call created was removed by someone else
    errors,     \* store errors given so far
    nLocks,     \* lock calls made so far
    upc,        \* position of the administrative unlock call
    uname,      \* its key argument
    listeners,  \* __events of each process: event name -> listeners in order
    subscribed, \* the channels the store has each process's sub client on
    pubq,       \* messages published and not yet fanned out by the store
    inbound,    \* messages the store sent to a sub client, handler not yet run
    fired,      \* per once wrapper: invocations of its callback so far
    nRegs,      \* on and once calls made so far
    nEmits,     \* emit calls made so far
    lastOp,     \* the event-bus step taken last, the commands it sent on the
                \* sub client and the callbacks it invoked
    cpc,        \* position of the del call in progress
    ckey,       \* its key argument
    cpend,      \* the keys KEYS found whose DEL is not answered yet
    cfail,      \* one of those DELs failed
    cres,       \* how the last cache operation ended
    nCache,     \* get, set and del calls made so far
    cdirty,     \* a key was written while the del call was in progress
    gkey,       \* the key argument of the get call made last
    gres,       \* state of the promise that get call returned
    gval,       \* the value it resolved with
    nprefix,    \* a prefix an instance may be configured with
    nevent,     \* an event name
    nlocal,     \* the event name the 'message' handler decoded
    ndone       \* the handler has decoded the channel of nevent

lockVars == <<store, pc, lname, ltimeout, lockTimeout, reply, retried, lost,
              errors, nLocks, upc, uname>>

eventVars == <<listeners, subscribed, pubq, inbound, fired, nRegs, nEmits, lastOp>>

getVars == <<gkey, gres, gval>>

cacheVars == <<cpc, ckey, cpend, cfail, cres, nCache, cdirty, getVars>>

nameVars == <<nprefix, nevent, nlocal, ndone>>

vars == <<lockVars, eventVars, cacheVars, nameVars>>

(***************************************************************************)
(* The store's key space.                                                  *)
(***************************************************************************)
Exists(key) == key \in DOMAIN store

Put(key, rec) ==
    [k \in DOMAIN store \cup {key} |-> IF k = key THEN rec ELSE store[k]]

Remove(key) == [k \in DOMAIN store \ {key} |-> store[k]]

\* `${this.__prefix}.lock.${key}`
LockKey(name) == Prefix \o Dot \o LockSeg \o name

\* SET without PX: the record never expires
LockRecordNoPX(c) == [val |-> lockTimeout[c], px |-> 0, by |-> c]

\* the record SET key lockTimeout PX timeout NX writes
LockRecord(c) == [val |-> lockTimeout[c], px |-> ltimeout[c], by |-> c]

\* Date.now() + timeout + 1
LockTimeoutOf(now, timeout) == now + timeout + Epsilon

(***************************************************************************)
(* lock(key, timeout)                                                      *)
(***************************************************************************)
\* the call has acquired and its capability's DEL has not been executed
Owns(c) == (pc[c] = "replied" /\ reply[c] = "OK") \/ pc[c] \in {"holding", "releasing"}

\* the callers whose record a removal of the name's record takes away, other
\* than the caller whose capability removes it
Losers(name, except) ==
    {c \in Callers \ except :
        Owns(c) /\ lname[c] = name /\ Exists(LockKey(name))}

Lose(name, except) ==
    [c \in Callers |-> IF c \in Losers(name, except) THEN TRUE ELSE lost[c]]

\* a caller enters lock: the payload is computed and SET .. PX .. NX is sent
Lock(c, name, timeout) ==
    /\ pc[c] = "idle"
    /\ nLocks < MaxLocks
    /\ \E now \in Times :
           lockTimeout' = [lockTimeout EXCEPT ![c] = LockTimeoutOf(now, timeout)]
    /\ pc' = [pc EXCEPT ![c] = "attempt"]
    /\ lname' = [lname EXCEPT ![c] = name]
    /\ ltimeout' = [ltimeout EXCEPT ![c] = timeout]
    /\ nLocks' = nLocks + 1
    /\ UNCHANGED <<store, reply, retried, lost, errors, upc, uname>>
    /\ UNCHANGED eventVars
    /\ UNCHANGED cacheVars
    /\ UNCHANGED nameVars

\* SET without NX reports success whether or not the key exists
SetNXResultNoNX(key) == "OK"

\* the store's answer to SET key value PX timeout NX
SetNXResult(key) == IF Exists(key) THEN "null" ELSE "OK"

SetNXStore(key, rec) == IF Exists(key) THEN store ELSE Put(key, rec)

\* the store executes the caller's SET .. NX
StoreSetNX(c) ==
    /\ pc[c] = "attempt"
    /\ store' = SetNXStore(LockKey(lname[c]), LockRecord(c))
    /\ reply' = [reply EXCEPT ![c] = SetNXResult(LockKey(lname[c]))]
    /\ pc' = [pc EXCEPT ![c] = "replied"]
    /\ UNCHANGED <<lname, ltimeout, lockTimeout, retried, lost, errors, nLocks,
                   upc, uname>>
    /\ UNCHANGED eventVars
    /\ UNCHANGED cacheVars
    /\ UNCHANGED nameVars

\* the store (or the connection) fails the caller's SET .. NX
StoreSetErr(c) ==
    /\ pc[c] = "attempt"
    /\ errors < MaxErrors
    /\ errors' = errors + 1
    /\ reply' = [reply EXCEPT ![c] = "err"]
    /\ pc' = [pc EXCEPT ![c] = "replied"]
    /\ UNCHANGED <<store, lname, ltimeout, lockTimeout, retried, lost, nLocks,
                   upc, uname>>
    /\ UNCHANGED eventVars
    /\ UNCHANGED cacheVars
    /\ UNCHANGED nameVars

\* the callback sets the retry timer whatever the answer
MustRetryAlways(r) == TRUE

\* if (err): a null result is taken for success
MustRetryErrOnly(r) == r = "err"

\* if (result === null): an error is taken for success
MustRetryNullOnly(r) == r = "null"

\* if (err || result === null)
MustRetry(r) == r = "err" \/ r = "null"

\* the callback of SET: setTimeout(retry, 50) or resolve(release capability)
LockCallback(c) ==
    /\ pc[c] = "replied"
    /\ pc' = [pc EXCEPT ![c] = IF MustRetry(reply[c]) THEN "waiting" ELSE "holding"]
    /\ retried' = [retried EXCEPT ![c] = IF MustRetry(reply[c]) THEN TRUE ELSE @]
    /\ UNCHANGED <<store, lname, ltimeout, lockTimeout, reply, lost, errors,
                   nLocks, upc, uname>>
    /\ UNCHANGED eventVars
    /\ UNCHANGED cacheVars
    /\ UNCHANGED nameVars

\* the 50ms timer fires: this.lock(key, timeout).then(resolve)
RetryTimer(c) ==
    /\ pc[c] = "waiting"
    /\ \E now \in Times :
           lockTimeout' = [lockTimeout EXCEPT ![c] = LockTimeoutOf(now, ltimeout[c])]
    /\ pc' = [pc EXCEPT ![c] = "attempt"]
    /\ reply' = [reply EXCEPT ![c] = "none"]
    /\ UNCHANGED <<store, lname, ltimeout, retried, lost, errors, nLocks, upc,
                   uname>>
    /\ UNCHANGED eventVars
    /\ UNCHANGED cacheVars
    /\ UNCHANGED nameVars

\* the holder invokes its release capability: DEL is sent
Release(c) ==
    /\ pc[c] = "holding"
    /\ pc' = [pc EXCEPT ![c] = "releasing"]
    /\ UNCHANGED <<store, lname, ltimeout, lockTimeout, reply, retried, lost,
                   errors, nLocks, upc, uname>>
    /\ UNCHANGED eventVars
    /\ UNCHANGED cacheVars
    /\ UNCHANGED nameVars

\* a capability whose DEL removes nothing
ReleaseDelKeep(c) == store

\* DEL `${prefix}.lock.${key}` of the capability
ReleaseDel(c) == Remove(LockKey(lname[c]))

\* the store executes the capability's DEL; its callback resolves the promise
\* and the caller is free to call lock again
StoreDelRelease(c) ==
    /\ pc[c] = "releasing"
    /\ store' = ReleaseDel(c)
    /\ pc' = [pc EXCEPT ![c] = "idle"]
    /\ lost' = [Lose(lname[c], {c}) EXCEPT ![c] = FALSE]
    /\ lname' = [lname EXCEPT ![c] = NoName]
    /\ ltimeout' = [ltimeout EXCEPT ![c] = 0]
    /\ lockTimeout' = [lockTimeout EXCEPT ![c] = 0]
    /\ reply' = [reply EXCEPT ![c] = "none"]
    /\ retried' = [retried EXCEPT ![c] = FALSE]
    /\ UNCHANGED <<errors, nLocks, upc, uname>>
    /\ UNCHANGED eventVars
    /\ UNCHANGED cacheVars
    /\ UNCHANGED nameVars

\* the store (or the connection) fails the capability's DEL; the callback
\* takes no argument and resolves all the same
StoreDelReleaseErr(c) ==
    /\ pc[c] = "releasing"
    /\ errors < MaxErrors
    /\ errors' = errors + 1
    /\ pc' = [pc EXCEPT ![c] = "idle"]
    /\ lost' = [lost EXCEPT ![c] = FALSE]
    /\ lname' = [lname EXCEPT ![c] = NoName]
    /\ ltimeout' = [ltimeout EXCEPT ![c] = 0]
    /\ lockTimeout' = [lockTimeout EXCEPT ![c] = 0]
    /\ reply' = [reply EXCEPT ![c] = "none"]
    /\ retried' = [retried EXCEPT ![c] = FALSE]
    /\ UNCHANGED <<store, nLocks, upc, uname>>
    /\ UNCHANGED eventVars
    /\ UNCHANGED cacheVars
    /\ UNCHANGED nameVars

(***************************************************************************)
(* unlock(key)                                                             *)
(***************************************************************************)
\* an unlock that spares the record of a caller that holds the name
UnlockDelOwned(name) ==
    IF \E c \in Callers : Owns(c) /\ lname[c] = name /\ ~lost[c]
    THEN store
    ELSE Remove(LockKey(name))

\* DEL `${prefix}.lock.${key}`
UnlockDel(name) == Remove(LockKey(name))

Unlock(name) ==
    /\ upc \in {"idle", "done"}
    /\ upc' = "unlocking"
    /\ uname' = name
    /\ UNCHANGED <<store, pc, lname, ltimeout, lockTimeout, reply, retried,
                   lost, errors, nLocks>>
    /\ UNCHANGED eventVars
    /\ UNCHANGED cacheVars
    /\ UNCHANGED nameVars

\* the store executes the DEL; the callback resolves the promise
StoreDelUnlock ==
    /\ upc = "unlocking"
    /\ store' = UnlockDel(uname)
    /\ lost' = [c \in Callers |->
                  IF LockKey(uname) \in DOMAIN store /\ LockKey(uname) \notin DOMAIN store'
                  THEN Lose(uname, {})[c] ELSE lost[c]]
    /\ upc' = "done"
    /\ uname' = NoName
    /\ UNCHANGED <<pc, lname, ltimeout, lockTimeout, reply, retried, errors,
                   nLocks>>
    /\ UNCHANGED eventVars
    /\ UNCHANGED cacheVars
    /\ UNCHANGED nameVars

\* the store (or the connection) fails the DEL; the callback takes no
\* argument and resolves all the same
StoreDelUnlockErr ==
    /\ upc = "unlocking"
    /\ errors < MaxErrors
    /\ errors' = errors + 1
    /\ upc' = "done"
    /\ uname' = NoName
    /\ UNCHANGED <<store, pc, lname, ltimeout, lockTimeout, reply, retried,
                   lost, nLocks>>
    /\ UNCHANGED eventVars
    /\ UNCHANGED cacheVars
    /\ UNCHANGED nameVars

(***************************************************************************)
(* The store's own TTL eviction of a key written with PX.                  *)
(***************************************************************************)
HasTTL(key) == Exists(key) /\ store[key].px > 0

Expire(name) ==
    /\ HasTTL(LockKey(name))
    /\ store' = Remove(LockKey(name))
    /\ lost' = Lose(name, {})
    /\ UNCHANGED <<pc, lname, ltimeout, lockTimeout, reply, retried, errors,
                   nLocks, upc, uname>>
    /\ UNCHANGED eventVars
    /\ UNCHANGED cacheVars
    /\ UNCHANGED nameVars

(***************************************************************************)
(* Names on the wire.                                                      *)
(***************************************************************************)
\* `${this.__prefix}.${key}` of an instance configured with prefix q
ChannelOf(q, e) == q \o Dot \o e

\* `${this.__prefix}.${key}`
Channel(e) == ChannelOf(Prefix, e)

\* sep occurs in s at position i
MatchAt(s, sep, i) ==
    /\ i + Len(sep) - 1 <= Len(s)
    /\ SubSeq(s, i, i + Len(sep) - 1) = sep

\* String.prototype.split with a non-empty separator: the pieces between the
\* occurrences of sep, found left to right; from is where the piece starts
RECURSIVE SplitFrom(_, _, _, _)
SplitFrom(s, sep, i, from) ==
    IF i + Len(sep) - 1 > Len(s)
    THEN <<SubSeq(s, from, Len(s))>>
    ELSE IF MatchAt(s, sep, i)
         THEN <<SubSeq(s, from, i - 1)>>
                  \o SplitFrom(s, sep, i + Len(sep), i + Len(sep))
         ELSE SplitFrom(s, sep, i + 1, from)

Split(s, sep) == SplitFrom(s, sep, 1, 1)

\* Array.prototype.join
RECURSIVE Join(_, _)
Join(pieces, sep) ==
    IF pieces = <<>> THEN <<>>
    ELSE IF Len(pieces) = 1 THEN pieces[1]
    ELSE pieces[1] \o sep \o Join(Tail(pieces), sep)

\* Array.prototype.shift
Shift(pieces) == IF pieces = <<>> THEN <<>> ELSE Tail(pieces)

\* a decoding that keeps the first piece after the prefix only
ToLocalOfFirst(q, channel) == Shift(Split(channel, q \o Dot))[1]

\* split on `${prefix}.`, shift, join with `${prefix}.`
ToLocalOf(q, channel) == Join(Shift(Split(channel, q \o Dot)), q \o Dot)

\* the event name the 'message' handler emits for a channel
ToLocal(channel) == ToLocalOf(Prefix, channel)

(***************************************************************************)
(* JSON of the argument list of emit.  A value is written as a string: a   *)
(* member of Numbers stands for that number, any other for a JS string.    *)
(***************************************************************************)
Numbers == {"1", "2"}
Vals == Numbers \cup {"s"}
ArgLists == {<<"1">>, <<"s", "2">>}

\* the arrays JSON.parse can give back
JsonArrays == {<<>>} \cup {<<v>> : v \in Vals} \cup {<<v, w>> : v, w \in Vals}

JsonOf(v) == IF v \in Numbers THEN v ELSE "\"" \o v \o "\""

RECURSIVE JsonItems(_)
JsonItems(args) ==
    IF args = <<>> THEN ""
    ELSE IF Len(args) = 1 THEN JsonOf(args[1])
    ELSE JsonOf(args[1]) \o "," \o JsonItems(Tail(args))

\* JSON.stringify(args)
Stringify(args) == "[" \o JsonItems(args) \o "]"

\* JSON.parse(data)
Parse(data) == CHOOSE a \in JsonArrays : Stringify(a) = data

(***************************************************************************)
(* The event router: on, off, once, emit and the 'message' handler.        *)
(***************************************************************************)
Procs == {"P", "Q"}
\* the process whose emit calls are followed
Emitters == {"P"}
Events == {<<"a">>, <<"p", ".", "b">>}
Fns == {"f", "g"}

\* a listener as __events holds it: fn itself (wid 0) or the wrapper that
\* call number wid of once made for fn
Plain(fn) == [fn |-> fn, wid |-> 0]
Wrapper(fn, wid) == [fn |-> fn, wid |-> wid]

Count(p, e) == Len(listeners[p][e])

RECURSIVE LastIndex(_, _, _)
LastIndex(L, l, i) ==
    IF i = 0 THEN 0 ELSE IF L[i] = l THEN i ELSE LastIndex(L, l, i - 1)

RemoveAt(L, i) == SubSeq(L, 1, i - 1) \o SubSeq(L, i + 1, Len(L))

\* splice(indexOf(l), 1) with indexOf -1: the last listener goes
RemoveListenerSplice(L, l) ==
    IF L = <<>> THEN L
    ELSE IF LastIndex(L, l, Len(L)) = 0 THEN RemoveAt(L, Len(L))
    ELSE RemoveAt(L, LastIndex(L, l, Len(L)))

\* EventEmitter.removeListener: the most recently added instance of l goes
RemoveListener(L, l) ==
    IF LastIndex(L, l, Len(L)) = 0 THEN L ELSE RemoveAt(L, LastIndex(L, l, Len(L)))

\* if (listenerCount(key) >= 1): every on subscribes
FirstListenerAny(n) == n >= 1

\* if (this.__events.listenerCount(key) === 1)
FirstListener(n) == n = 1

\* if (!this.__events.listenerCount(key))
NoListener(n) == n = 0

\* what a handler of process p has done so far to one event: the listeners L
\* of the event, the subscriptions sub of the process, the commands cmds sent
\* on the sub client, the callbacks calls invoked, the wrappers fired
StartOf(p, e) ==
    [p |-> p, L |-> listeners[p][e], sub |-> subscribed[p], cmds |-> <<>>,
     calls |-> <<>>, fired |-> fired]

\* on(key, fn) with fn the listener l
OnIn(st, e, l) ==
    LET L1 == Append(st.L, l)
    IN  [st EXCEPT !.L = L1,
                   !.sub = IF FirstListener(Len(L1)) THEN @ \cup {Channel(e)} ELSE @,
                   !.cmds = IF FirstListener(Len(L1))
                            THEN Append(@, <<"subscribe", st.p, Channel(e)>>) ELSE @]

\* off(key, fn) with fn the listener l
OffIn(st, e, l) ==
    LET L1 == RemoveListener(st.L, l)
    IN  [st EXCEPT !.L = L1,
                   !.sub = IF NoListener(Len(L1)) THEN @ \ {Channel(e)} ELSE @,
                   !.cmds = IF NoListener(Len(L1))
                            THEN Append(@, <<"unsubscribe", st.p, Channel(e)>>) ELSE @]

\* the wrapper forgets this.off(key, once)
OnceBodyNoOff(st, e, l, args) ==
    [st EXCEPT !.calls = Append(@, [p |-> st.p, fn |-> l.fn, wid |-> l.wid, args |-> args]),
               !.fired[l.wid] = @ + 1]

\* the wrapper of once: this.off(key, once); fn(...args)
OnceBody(st, e, l, args) ==
    [OffIn(st, e, l) EXCEPT
        !.calls = Append(@, [p |-> st.p, fn |-> l.fn, wid |-> l.wid, args |-> args]),
        !.fired[l.wid] = @ + 1]

\* one listener is called with the arguments
CallListener(st, e, l, args) ==
    IF l.wid = 0
    THEN [st EXCEPT !.calls = Append(@, [p |-> st.p, fn |-> l.fn, wid |-> 0, args |-> args])]
    ELSE OnceBody(st, e, l, args)

RECURSIVE RunFrom(_, _, _, _, _)
RunFrom(snap, i, st, e, args) ==
    IF i > Len(snap) THEN st
    ELSE RunFrom(snap, i + 1, CallListener(st, e, snap[i], args), e, args)

\* a loop over the listener array itself, with no copy taken
RECURSIVE RunLiveFrom(_, _, _, _)
RunLiveFrom(i, st, e, args) ==
    IF i > Len(st.L) THEN st
    ELSE RunLiveFrom(i + 1, CallListener(st, e, st.L[i], args), e, args)

EventsEmitLive(st, e, args) == RunLiveFrom(1, st, e, args)

\* EventEmitter.emit: the listeners registered when emit starts are called in
\* order, each once, whatever they do to the registration meanwhile
EventsEmit(st, e, args) == RunFrom(st.L, 1, st, e, args)

Op(op, st) == [op |-> op, cmds |-> st.cmds, calls |-> st.calls]

\* the effect of a handler on the registry and on the subscriptions
Commit(p, e, st) ==
    /\ listeners' = [listeners EXCEPT ![p][e] = st.L]
    /\ subscribed' = [subscribed EXCEPT ![p] = st.sub]
    /\ fired' = st.fired

On(p, e, fn) ==
    /\ nRegs < MaxRegs
    /\ nRegs' = nRegs + 1
    /\ LET st == OnIn(StartOf(p, e), e, Plain(fn))
       IN  Commit(p, e, st) /\ lastOp' = Op("on", st)
    /\ UNCHANGED <<pubq, inbound, nEmits>>
    /\ UNCHANGED lockVars
    /\ UNCHANGED cacheVars
    /\ UNCHANGED nameVars

Off(p, e, fn) ==
    /\ LET st == OffIn(StartOf(p, e), e, Plain(fn))
       IN  Commit(p, e, st) /\ lastOp' = Op("off", st)
    /\ UNCHANGED <<pubq, inbound, nRegs, nEmits>>
    /\ UNCHANGED lockVars
    /\ UNCHANGED cacheVars
    /\ UNCHANGED nameVars

Once(p, e, fn) ==
    /\ nRegs < MaxRegs
    /\ nRegs' = nRegs + 1
    /\ LET st == OnIn(StartOf(p, e), e, Wrapper(fn, nRegs + 1))
       IN  Commit(p, e, st) /\ lastOp' = Op("once", st)
    /\ UNCHANGED <<pubq, inbound, nEmits>>
    /\ UNCHANGED lockVars
    /\ UNCHANGED cacheVars
    /\ UNCHANGED nameVars

\* a local shortcut: emit also calls the listeners of its own process
EmitStateShortcut(p, e, args) == EventsEmit(StartOf(p, e), e, args)

\* what emit leaves behind: nothing but the message sent on the pub client
EmitState(p, e, args) == [StartOf(p, e) EXCEPT !.cmds = <<>>]

\* emit(key, ...args): publish(`${prefix}.${key}`, JSON.stringify(args)); the
\* message remembers who emitted what
Message(p, e, args) ==
    [src |-> p, e |-> e, args |-> args,
     channel |-> Channel(e), data |-> Stringify(args)]

Emit(p, e, args) ==
    /\ nEmits < MaxEmits
    /\ nEmits' = nEmits + 1
    /\ pubq' = Append(pubq, Message(p, e, args))
    /\ LET st == EmitState(p, e, args)
       IN  Commit(p, e, st) /\ lastOp' = Op("emit", st)
    /\ UNCHANGED <<inbound, nRegs>>
    /\ UNCHANGED lockVars
    /\ UNCHANGED cacheVars
    /\ UNCHANGED nameVars

\* the sub clients the store sends a message of the channel to
Receivers(channel) == {q \in Procs : channel \in subscribed[q]}

\* the store executes PUBLISH
StorePublish ==
    /\ pubq # <<>>
    /\ LET m == Head(pubq)
       IN  /\ inbound' = [q \in Procs |->
                            IF q \in Receivers(m.channel)
                            THEN Append(inbound[q], m) ELSE inbound[q]]
           /\ lastOp' = [op |-> "publish", cmds |-> <<>>, calls |-> <<>>]
    /\ pubq' = Tail(pubq)
    /\ UNCHANGED <<listeners, subscribed, fired, nRegs, nEmits>>
    /\ UNCHANGED lockVars
    /\ UNCHANGED cacheVars
    /\ UNCHANGED nameVars

\* the sub client's 'message' handler runs for the next message
Dispatch(p) ==
    /\ inbound[p] # <<>>
    /\ LET m == Head(inbound[p])
           e == ToLocal(m.channel)
           st == EventsEmit(StartOf(p, e), e, Parse(m.data))
       IN  /\ e \in Events
           /\ Commit(p, e, st)
           /\ lastOp' = Op("dispatch", st)
    /\ inbound' = [inbound EXCEPT ![p] = Tail(@)]
    /\ UNCHANGED <<pubq, nRegs, nEmits>>
    /\ UNCHANGED lockVars
    /\ UNCHANGED cacheVars
    /\ UNCHANGED nameVars

InitEvents ==
    /\ listeners = [p \in Procs |-> [e \in Events |-> <<>>]]
    /\ subscribed = [p \in Procs |-> {}]
    /\ pubq = <<>>
    /\ inbound = [p \in Procs |-> <<>>]
    /\ fired = [w \in 1..MaxRegs |-> 0]
    /\ nRegs = 0
    /\ nEmits = 0
    /\ lastOp = [op |-> "init", cmds |-> <<>>, calls |-> <<>>]

NextEvents ==
    \/ \E p \in Procs, e \in Events, fn \in Fns : On(p, e, fn)
    \/ \E p \in Procs, e \in Events, fn \in Fns : Off(p, e, fn)
    \/ \E p \in Procs, e \in Events, fn \in Fns : Once(p, e, fn)
    \/ \E p \in Emitters, e \in Events, args \in ArgLists : Emit(p, e, args)
    \/ StorePublish
    \/ \E p \in Procs : Dispatch(p)

(***************************************************************************)
(* The cache facade: set and del over the same key space.                  *)
(***************************************************************************)
\* keys and patterns the application passes to set and del
SetKeys == {<<"k">>, <<"l", "o", "c", "k", ".", "x">>}
DelKeys == SetKeys \cup {<<"*">>}
CacheVals == {"1", "s"}

\* `${this.__prefix}.${key}`
CacheKey(k) == Prefix \o Dot \o k

\* the store's glob match of KEYS: * is any run of characters, ? any one
RECURSIVE Glob(_, _)
Glob(pat, s) ==
    IF pat = <<>> THEN s = <<>>
    ELSE IF Head(pat) = "*"
         THEN Glob(Tail(pat), s) \/ (s # <<>> /\ Glob(pat, Tail(s)))
         ELSE /\ s # <<>>
              /\ (Head(pat) = "?" \/ Head(pat) = Head(s))
              /\ Glob(Tail(pat), Tail(s))

\* KEYS pattern
Keys(pattern) == {key \in DOMAIN store : Glob(pattern, key)}

\* a write or a removal of a key that is a lock record takes it from its owner
LoseKey(key) ==
    [c \in Callers |->
        IF Owns(c) /\ LockKey(lname[c]) = key /\ Exists(key) THEN TRUE ELSE lost[c]]

\* a set that stores the value without JSON.stringify
CacheRecordRaw(v) == [val |-> v, px |-> 0, by |-> "cache"]

\* the record SET key JSON.stringify(value) writes: no expiry
CacheRecord(v) == [val |-> JsonOf(v), px |-> 0, by |-> "cache"]

\* set(key, value): the store executes SET and the promise resolves
CacheSet(k, v) ==
    /\ nCache < MaxCacheOps
    /\ nCache' = nCache + 1
    /\ store' = Put(CacheKey(k), CacheRecord(v))
    /\ lost' = LoseKey(CacheKey(k))
    /\ cres' = "set"
    /\ cdirty' = (cdirty \/ cpc # "idle")
    /\ UNCHANGED <<cpc, ckey, cpend, cfail>>
    /\ UNCHANGED <<pc, lname, ltimeout, lockTimeout, reply, retried, errors,
                   nLocks, upc, uname>>
    /\ UNCHANGED eventVars
    /\ UNCHANGED getVars
    /\ UNCHANGED nameVars

\* del(key) starts: KEYS `${prefix}.${key}` is sent
CacheDel(k) ==
    /\ cpc = "idle"
    /\ nCache < MaxCacheOps
    /\ nCache' = nCache + 1
    /\ cpc' = "keys"
    /\ ckey' = k
    /\ cres' = "pending"
    /\ cdirty' = FALSE
    /\ UNCHANGED <<cpend, cfail>>
    /\ UNCHANGED lockVars
    /\ UNCHANGED eventVars
    /\ UNCHANGED getVars
    /\ UNCHANGED nameVars

\* the store answers KEYS; one DEL per key found is sent
StoreKeys ==
    /\ cpc = "keys"
    /\ cpend' = Keys(CacheKey(ckey))
    /\ cpc' = "dels"
    /\ UNCHANGED <<ckey, cfail, cres, nCache>>
    /\ UNCHANGED lockVars
    /\ UNCHANGED eventVars
    /\ UNCHANGED cdirty
    /\ UNCHANGED getVars
    /\ UNCHANGED nameVars

\* the store fails KEYS: del rejects
StoreKeysErr ==
    /\ cpc = "keys"
    /\ errors < MaxErrors
    /\ errors' = errors + 1
    /\ cpc' = "idle"
    /\ ckey' = NoName
    /\ cres' = "rejected"
    /\ UNCHANGED <<cpend, cfail, nCache>>
    /\ UNCHANGED <<store, pc, lname, ltimeout, lockTimeout, reply, retried,
                   lost, nLocks, upc, uname>>
    /\ UNCHANGED eventVars
    /\ UNCHANGED cdirty
    /\ UNCHANGED getVars
    /\ UNCHANGED nameVars

\* the store executes one of the DELs of the keys found
StoreDelKey(key) ==
    /\ cpc = "dels"
    /\ key \in cpend
    /\ store' = Remove(key)
    /\ lost' = LoseKey(key)
    /\ cpend' = cpend \ {key}
    /\ UNCHANGED <<cpc, ckey, cfail, cres, nCache>>
    /\ UNCHANGED <<pc, lname, ltimeout, lockTimeout, reply, retried, errors,
                   nLocks, upc, uname>>
    /\ UNCHANGED eventVars
    /\ UNCHANGED cdirty
    /\ UNCHANGED getVars
    /\ UNCHANGED nameVars

\* the store fails one of the DELs: Promise.all will reject
StoreDelKeyErr(key) ==
    /\ cpc = "dels"
    /\ key \in cpend
    /\ errors < MaxErrors
    /\ errors' = errors + 1
    /\ cpend' = cpend \ {key}
    /\ cfail' = TRUE
    /\ cres' = "rejected"
    /\ UNCHANGED <<cpc, ckey, nCache>>
    /\ UNCHANGED <<store, pc, lname, ltimeout, lockTimeout, reply, retried,
                   lost, nLocks, upc, uname>>
    /\ UNCHANGED eventVars
    /\ UNCHANGED cdirty
    /\ UNCHANGED getVars
    /\ UNCHANGED nameVars

\* a del that goes on to its last DEL although one of the DELs failed
AfterAllAlways(fail) == "final"

\* await Promise.all(...): a rejection ends the async function
AfterAll(fail) == IF fail THEN "idle" ELSE "final"

\* await Promise.all(...): every DEL was answered; a failed one has rejected
\* del, otherwise DEL key, the argument as it was passed, is sent
DelJoin ==
    /\ cpc = "dels"
    /\ cpend = {}
    /\ cpc' = AfterAll(cfail)
    /\ ckey' = IF cfail THEN NoName ELSE ckey
    /\ cres' = IF cfail THEN "rejected" ELSE cres
    /\ cfail' = FALSE
    /\ UNCHANGED <<cpend, nCache>>
    /\ UNCHANGED lockVars
    /\ UNCHANGED eventVars
    /\ UNCHANGED cdirty
    /\ UNCHANGED getVars
    /\ UNCHANGED nameVars

\* the key of the last DEL: cache.del(key), the argument as it was passed
FinalKey == ckey

\* the store executes the last DEL and del resolves
StoreDelFinal ==
    /\ cpc = "final"
    /\ store' = Remove(FinalKey)
    /\ lost' = LoseKey(FinalKey)
    /\ cpc' = "idle"
    /\ ckey' = NoName
    /\ cres' = "deleted"
    /\ UNCHANGED <<cpend, cfail, nCache>>
    /\ UNCHANGED <<pc, lname, ltimeout, lockTimeout, reply, retried, errors,
                   nLocks, upc, uname>>
    /\ UNCHANGED eventVars
    /\ UNCHANGED cdirty
    /\ UNCHANGED getVars
    /\ UNCHANGED nameVars

\* the store fails the last DEL: del rejects
StoreDelFinalErr ==
    /\ cpc = "final"
    /\ errors < MaxErrors
    /\ errors' = errors + 1
    /\ cpc' = "idle"
    /\ ckey' = NoName
    /\ cres' = "rejected"
    /\ UNCHANGED <<cpend, cfail, nCache>>
    /\ UNCHANGED <<store, pc, lname, ltimeout, lockTimeout, reply, retried,
                   lost, nLocks, upc, uname>>
    /\ UNCHANGED eventVars
    /\ UNCHANGED cdirty
    /\ UNCHANGED getVars
    /\ UNCHANGED nameVars

InitCache ==
    /\ cpc = "idle"
    /\ ckey = NoName
    /\ cpend = {}
    /\ cfail = FALSE
    /\ cres = "none"
    /\ nCache = 0
    /\ cdirty = FALSE
    /\ gkey = NoName
    /\ gres = "none"
    /\ gval = ""

NextCache ==
    \/ \E k \in SetKeys, v \in CacheVals : CacheSet(k, v)
    \/ \E k \in DelKeys : CacheDel(k)
    \/ StoreKeys
    \/ StoreKeysErr
    \/ \E key \in cpend : StoreDelKey(key)
    \/ \E key \in cpend : StoreDelKeyErr(key)
    \/ DelJoin
    \/ StoreDelFinal
    \/ StoreDelFinalErr

(***************************************************************************)
(* get, and the other writers of the shared store.                         *)
(***************************************************************************)
GetKeys == {<<"k">>, <<"r">>}
\* more keys and patterns of set and del: a second key of the wildcard and an
\* argument that itself starts with the prefix
MoreSetKeys == {<<"k", "2">>}
MoreDelKeys == {<<"k", "*">>, Prefix \o Dot \o <<"k">>}
\* keys another client of the store writes: one outside the prefix, one
\* inside it, and the text it writes, which is no JSON
OtherKeys == {<<"k">>, Prefix \o Dot \o <<"r">>}
OtherTexts == {"{"}

\* the external key starts with `${prefix}.`
UnderPrefix(key) ==
    /\ Len(key) >= Len(Prefix \o Dot)
    /\ SubSeq(key, 1, Len(Prefix \o Dot)) = Prefix \o Dot

\* JSON.parse(data) of a stored text returns (does not throw)
ValidJson(text) == \E v \in CacheVals : JsonOf(v) = text

ParseValue(text) == CHOOSE v \in CacheVals : JsonOf(v) = text

\* set(key, value) when the store fails SET: resolve is the callback, the
\* promise resolves with the error and nothing is written
CacheSetErr(k, v) ==
    /\ nCache < MaxCacheOps
    /\ errors < MaxErrors
    /\ nCache' = nCache + 1
    /\ errors' = errors + 1
    /\ cres' = "seterr"
    /\ UNCHANGED <<cpc, ckey, cpend, cfail, cdirty>>
    /\ UNCHANGED <<store, pc, lname, ltimeout, lockTimeout, reply, retried,
                   lost, nLocks, upc, uname>>
    /\ UNCHANGED eventVars
    /\ UNCHANGED getVars
    /\ UNCHANGED nameVars

\* get(key): GET `${prefix}.${key}` is sent
Get(k) ==
    /\ gres # "pending"
    /\ nCache < MaxCacheOps
    /\ nCache' = nCache + 1
    /\ gkey' = k
    /\ gres' = "pending"
    /\ gval' = ""
    /\ UNCHANGED <<cpc, ckey, cpend, cfail, cres, cdirty>>
    /\ UNCHANGED lockVars
    /\ UNCHANGED eventVars
    /\ UNCHANGED nameVars

\* resolve(JSON.parse(data)) in the callback of GET: a missing key gives data
\* null and JSON.parse(null) is null; a throw of JSON.parse leaves the
\* callback before resolve, and the promise has no reject
GetOutcome(key) ==
    IF ~Exists(key) THEN [res |-> "null", val |-> ""]
    ELSE IF ValidJson(store[key].val)
         THEN [res |-> "value", val |-> ParseValue(store[key].val)]
         ELSE [res |-> "hung", val |-> ""]

\* the store answers GET and the callback runs
StoreGet ==
    /\ gres = "pending"
    /\ gres' = GetOutcome(CacheKey(gkey)).res
    /\ gval' = GetOutcome(CacheKey(gkey)).val
    /\ UNCHANGED gkey
    /\ UNCHANGED <<cpc, ckey, cpend, cfail, cres, nCache, cdirty>>
    /\ UNCHANGED lockVars
    /\ UNCHANGED eventVars
    /\ UNCHANGED nameVars

\* the store fails GET: data is undefined and JSON.parse(undefined) throws
StoreGetErr ==
    /\ gres = "pending"
    /\ errors < MaxErrors
    /\ errors' = errors + 1
    /\ gres' = "hung"
    /\ UNCHANGED <<gkey, gval>>
    /\ UNCHANGED <<cpc, ckey, cpend, cfail, cres, nCache, cdirty>>
    /\ UNCHANGED <<store, pc, lname, ltimeout, lockTimeout, reply, retried,
                   lost, nLocks, upc, uname>>
    /\ UNCHANGED eventVars
    /\ UNCHANGED nameVars

\* another client of the store writes a key
OtherSet(key, text) ==
    /\ ~Exists(key)
    /\ store' = Put(key, [val |-> text, px |-> 0, by |-> "other"])
    /\ cdirty' = (cdirty \/ cpc # "idle")
    /\ UNCHANGED <<cpc, ckey, cpend, cfail, cres, nCache>>
    /\ UNCHANGED <<pc, lname, ltimeout, lockTimeout, reply, retried, lost,
                   errors, nLocks, upc, uname>>
    /\ UNCHANGED eventVars
    /\ UNCHANGED getVars
    /\ UNCHANGED nameVars

\* the cache facade with every key and pattern, get, and the other writers
NextFacade ==
    \/ NextCache
    \/ \E k \in MoreSetKeys, v \in CacheVals : CacheSet(k, v)
    \/ \E k \in SetKeys, v \in CacheVals : CacheSetErr(k, v)
    \/ \E k \in MoreDelKeys : CacheDel(k)
    \/ \E k \in GetKeys : Get(k)
    \/ StoreGet
    \/ StoreGetErr
    \/ \E key \in OtherKeys, text \in OtherTexts : OtherSet(key, text)

(***************************************************************************)
(* The channel name of an event under any prefix, and back.                *)
(***************************************************************************)
Chars == {"p", ".", "b"}
RECURSIVE NamesOver(_, _)
NamesOver(A, n) ==
    IF n = 0 THEN {<<>>}
    ELSE NamesOver(A, n - 1)
           \cup {Append(w, a) : w \in NamesOver(A, n - 1), a \in A}

Prefixes == NamesOver({"p", "."}, MaxPrefixLen) \ {<<>>}
EventNames == NamesOver(Chars, MaxNameLen)

\* the 'message' handler computes the event name of a channel
Decode ==
    /\ ~ndone
    /\ nlocal' = ToLocalOf(nprefix, ChannelOf(nprefix, nevent))
    /\ ndone' = TRUE
    /\ UNCHANGED <<nprefix, nevent>>
    /\ UNCHANGED lockVars
    /\ UNCHANGED eventVars
    /\ UNCHANGED cacheVars

\* the instance of the other specifications: prefix Prefix, nothing decoded
InitNames ==
    /\ nprefix = Prefix
    /\ nevent = NoName
    /\ nlocal = NoName
    /\ ndone = TRUE

\* any prefix and any event name
InitAnyName ==
    /\ nprefix \in Prefixes
    /\ nevent \in EventNames
    /\ nlocal = NoName
    /\ ndone = FALSE

(***************************************************************************)
(* The lock manager on its own.                                            *)
(***************************************************************************)
InitLock ==
    /\ store = [k \in {} |-> 0]
    /\ pc = [c \in Callers |-> "idle"]
    /\ lname = [c \in Callers |-> NoName]
    /\ ltimeout = [c \in Callers |-> 0]
    /\ lockTimeout = [c \in Callers |-> 0]
    /\ reply = [c \in Callers |-> "none"]
    /\ retried = [c \in Callers |-> FALSE]
    /\ lost = [c \in Callers |-> FALSE]
    /\ errors = 0
    /\ nLocks = 0
    /\ upc = "idle"
    /\ uname = NoName

Init == InitLock /\ InitEvents /\ InitCache /\ InitNames

NextLock ==
    \/ \E c \in Callers, n \in LockNames, t \in Timeouts : Lock(c, n, t)
    \/ \E c \in Callers : StoreSetNX(c)
    \/ \E c \in Callers : StoreSetErr(c)
    \/ \E c \in Callers : LockCallback(c)
    \/ \E c \in Callers : RetryTimer(c)
    \/ \E c \in Callers : Release(c)
    \/ \E c \in Callers : StoreDelRelease(c)
    \/ \E c \in Callers : StoreDelReleaseErr(c)
    \/ \E n \in LockNames : Unlock(n)
    \/ StoreDelUnlock
    \/ StoreDelUnlockErr
    \/ \E n \in LockNames : Expire(n)

SpecLock == Init /\ [][NextLock]_vars

\* The event router on its own.
SpecEvents == Init /\ [][NextEvents]_vars

(***************************************************************************)
(* The scheduling the lock manager relies on: the store executes every     *)
(* command it was sent and evicts keys whose TTL ran out, callbacks run    *)
(* and timers fire.                                                        *)
(***************************************************************************)
FairLock ==
    /\ \A c \in Callers : WF_vars(StoreSetNX(c))
    /\ \A c \in Callers : WF_vars(LockCallback(c))
    /\ \A c \in Callers : WF_vars(RetryTimer(c))
    /\ \A c \in Callers : WF_vars(StoreDelRelease(c))
    /\ WF_vars(StoreDelUnlock)
    /\ \A n \in LockNames : WF_vars(Expire(n))

\* two callers contending for one name
Contenders == {"A", "B"}
ContendedNames == {<<"x">>}

NextContend ==
    \/ \E c \in Contenders, n \in ContendedNames, t \in Timeouts : Lock(c, n, t)
    \/ \E c \in Contenders : StoreSetNX(c)
    \/ \E c \in Contenders : StoreSetErr(c)
    \/ \E c \in Contenders : LockCallback(c)
    \/ \E c \in Contenders : RetryTimer(c)
    \/ \E c \in Contenders : Release(c)
    \/ \E c \in Contenders : StoreDelRelease(c)
    \/ \E c \in Contenders : StoreDelReleaseErr(c)
    \/ \E n \in ContendedNames : Unlock(n)
    \/ StoreDelUnlock
    \/ StoreDelUnlockErr
    \/ \E n \in ContendedNames : Expire(n)

SpecLockFair == Init /\ [][NextContend]_vars /\ FairLock

\* The cache facade and two lock callers on one key space.
NextStore == NextContend \/ NextCache

SpecStore == Init /\ [][NextStore]_vars

\* The cache facade on its own.
SpecCache == Init /\ [][NextFacade]_vars

\* The decoding of a channel name, for every prefix and event name.
InitDecode == InitLock /\ InitEvents /\ InitCache /\ InitAnyName

NextNames == Decode

SpecNames == InitDecode /\ [][NextNames]_vars

(***************************************************************************)
(* Claims about the lock manager.                                          *)
(***************************************************************************)
Holder(c) == pc[c] = "holding"

\* the first SET .. NX of the call has been answered
Answered(c) == pc[c] \in {"replied", "waiting", "holding", "releasing"} \/ retried[c]

\* the call acquired on its first attempt
FirstOK(c) == Owns(c) /\ ~retried[c]

\* C1: two callers never own (have acquired and not yet had their release
\* executed) the same name at once unless the record of one of them was taken
\* away by TTL expiry or unlock; the record of an owner that was not taken
\* away is in the store and is the one that owner wrote.  Holders are owners.
C1_MutualExclusion ==
    /\ \A c, d \in Callers :
          (c # d /\ Owns(c) /\ Owns(d) /\ lname[c] = lname[d])
              => (lost[c] \/ lost[d])
    /\ \A c \in Callers :
          (Owns(c) /\ ~lost[c])
              => /\ Exists(LockKey(lname[c]))
                 /\ store[LockKey(lname[c])].by = c

C1_Witness ==
    \E c, d \in Callers :
        /\ c # d
        /\ Holder(c) /\ ~lost[c]
        /\ lname[d] = lname[c]
        /\ pc[d] = "waiting"

\* the only two lock calls made so far are by c and d on one name, both first
\* attempts are answered, the store gave no error and no record was taken away
TwoConcurrent(c, d) ==
    /\ c # d
    /\ nLocks = 2
    /\ errors = 0
    /\ lname[c] # NoName /\ lname[c] = lname[d]
    /\ Answered(c) /\ Answered(d)
    /\ ~lost[c] /\ ~lost[d]

C2_ExactlyOneFirst ==
    \A c, d \in Callers :
        TwoConcurrent(c, d) => (FirstOK(c) /\ ~FirstOK(d)) \/ (FirstOK(d) /\ ~FirstOK(c))

\* C2: of two calls on a free name exactly one acquires on its first attempt;
\* an attempt succeeds only when no record of the name is in the store (so
\* the other call resolves only after the winner's record was removed), and
\* a call waiting in the retry loop does resolve in the end.
C2_TwoCallers ==
    /\ []C2_ExactlyOneFirst
    /\ [][\A d \in Callers :
            (pc[d] = "attempt" /\ pc'[d] = "replied" /\ reply'[d] = "OK")
                => ~Exists(LockKey(lname[d]))]_vars
    /\ [][\A d \in Callers :
            (pc[d] # "holding" /\ pc'[d] = "holding") => reply[d] = "OK"]_vars
    /\ \A d \in Callers : (pc[d] = "waiting") ~> (pc[d] = "holding")

C2_Witness ==
    \E c, d \in Callers :
        /\ c # d
        /\ nLocks = 2
        /\ errors = 0
        /\ Holder(d) /\ retried[d] /\ ~lost[d]
        /\ pc[c] = "idle"

\* C3: when no release capability is ever invoked and unlock is never called,
\* a call waiting in the retry loop for a name another caller holds resolves
\* in the end: the store's TTL eviction removes the holder's record.
C3_TTLSelfHealing ==
    ([](\A c \in Callers : pc[c] # "releasing") /\ [](upc = "idle"))
        => \A c, d \in Callers :
              (c # d /\ Holder(c) /\ lname[d] = lname[c] /\ pc[d] = "waiting")
                  ~> (Holder(d) /\ lost[c])

C3_Witness ==
    \E c, d \in Callers :
        /\ c # d
        /\ Holder(c) /\ lost[c]
        /\ Holder(d) /\ retried[d] /\ ~lost[d]
        /\ lname[d] = lname[c]
        /\ upc = "idle"

\* C10: a call resolves only on an attempt the store answered OK; an attempt
\* answered with an error or with null leads to the retry timer and to
\* nothing else, the timer can always fire, whatever the number of attempts
\* made, and it leads to a new attempt.
C10_NeverFails ==
    /\ [](\A c \in Callers : Holder(c) => reply[c] = "OK")
    /\ [](\A c \in Callers : pc[c] = "waiting" => ENABLED RetryTimer(c))
    /\ [][\A c \in Callers :
            (pc[c] = "replied" /\ reply[c] \in {"err", "null"} /\ pc'[c] # pc[c])
                => pc'[c] = "waiting"]_vars
    /\ [][\A c \in Callers :
            (pc[c] = "waiting" /\ pc'[c] # pc[c]) => pc'[c] = "attempt"]_vars

C10_Witness ==
    \E c \in Callers : pc[c] = "waiting" /\ reply[c] = "err" /\ retried[c]

\* C11: the DEL of unlock, when the store executes it, leaves no record of
\* the name whoever wrote it and whether or not one was there, and changes no
\* caller's position; a pending unlock can always be answered, with or
\* without a record; a record absent stays absent until an attempt creates
\* it, and an attempt the store answers while no record is there succeeds.
C11_Unlock ==
    /\ [][(upc = "unlocking" /\ upc' = "done" /\ errors' = errors)
            => /\ LockKey(uname) \notin DOMAIN store'
               /\ \A k \in DOMAIN store : k # LockKey(uname) => k \in DOMAIN store'
               /\ UNCHANGED <<pc, lname, reply>>]_vars
    /\ [](upc = "unlocking" => ENABLED StoreDelUnlock)
    /\ [][\A n \in LockNames :
            (~Exists(LockKey(n)) /\ LockKey(n) \in DOMAIN store')
                => \E c \in Callers :
                      /\ pc[c] = "attempt" /\ pc'[c] = "replied"
                      /\ lname[c] = n /\ reply'[c] = "OK"]_vars
    /\ [][\A c \in Callers :
            (pc[c] = "attempt" /\ pc'[c] = "replied" /\ errors' = errors
                 /\ ~Exists(LockKey(lname[c])))
                => reply'[c] = "OK"]_vars

\* unlock took the record of a holder and a second caller acquired the name
C11_Witness ==
    \E c, d \in Callers :
        /\ c # d
        /\ upc = "done"
        /\ errors = 0
        /\ Holder(c) /\ lost[c]
        /\ Owns(d) /\ ~lost[d]
        /\ lname[d] = lname[c]

\* no caller other than c has a call in progress on the name of c's call
NoContender(c) ==
    \A d \in Callers \ {c} : pc[d] = "idle" \/ lname[d] # lname[c]

\* C12: when the store has executed the DEL of a release capability the
\* record of the name is absent; an attempt answered while no other caller
\* has a call on the name, after releases only (no unlock, no store error),
\* is answered OK, and an OK leads to the resolution without the retry timer.
C12_LockAfterRelease ==
    /\ [][\A c \in Callers :
            (pc[c] = "releasing" /\ pc'[c] = "idle" /\ errors' = errors)
                => LockKey(lname[c]) \notin DOMAIN store']_vars
    /\ [][\A c \in Callers :
            (pc[c] = "attempt" /\ pc'[c] = "replied" /\ NoContender(c)
                 /\ errors' = 0 /\ upc = "idle")
                => reply'[c] = "OK"]_vars
    /\ [][\A c \in Callers :
            (pc[c] = "replied" /\ reply[c] = "OK" /\ pc'[c] # pc[c])
                => pc'[c] = "holding" /\ retried'[c] = retried[c]]_vars

\* the second of two calls, made after the release of the first, holds
\* without having retried
C12_Witness ==
    \E c \in Callers :
        /\ nLocks = 2
        /\ errors = 0
        /\ upc = "idle"
        /\ Holder(c) /\ ~retried[c] /\ ~lost[c]
        /\ \A d \in Callers \ {c} : pc[d] = "idle"

\* C18: a call issues an attempt only when it starts or when the timer set
\* after a failed attempt fires; after an attempt answered OK it issues no
\* attempt and sets no timer; it resolves only from an attempt answered OK,
\* and once resolved it only goes on to its release; an attempt answered OK
\* is followed by the resolution of the call.
C18_OneChain ==
    /\ [][\A c \in Callers :
            (pc'[c] = "attempt" /\ pc[c] # "attempt")
                => \/ pc[c] = "idle"
                   \/ pc[c] = "waiting" /\ reply[c] \in {"err", "null"}]_vars
    /\ [][\A c \in Callers :
            (pc'[c] = "waiting" /\ pc[c] # "waiting")
                => pc[c] = "replied" /\ reply[c] \in {"err", "null"}]_vars
    /\ [][\A c \in Callers :
            Owns(c) => pc'[c] \notin {"attempt", "waiting"}]_vars
    /\ [][\A c \in Callers :
            (pc'[c] = "holding" /\ pc[c] # "holding")
                => pc[c] = "replied" /\ reply[c] = "OK"]_vars
    /\ [][\A c \in Callers :
            (pc[c] = "holding" /\ pc'[c] # "holding") => pc'[c] = "releasing"]_vars
    /\ \A c \in Callers :
          (pc[c] = "replied" /\ reply[c] = "OK") ~> (pc[c] = "holding")

\* the only call made resolved on its second attempt, after a store error
C18_Witness ==
    \E c \in Callers :
        /\ nLocks = 1
        /\ errors = 1
        /\ Holder(c) /\ retried[c] /\ ~lost[c]

\* C19 as stated: the DEL of a release capability removes no record but the
\* one its own acquisition wrote: a record another caller wrote stays.
C19_ReleaseOwnOnly ==
    [][\A c \in Callers :
          (pc[c] = "releasing" /\ pc'[c] = "idle")
              => \A key \in DOMAIN store :
                    store[key].by # c => key \in DOMAIN store']_vars

(***************************************************************************)
(* Claims about the event router.                                          *)
(***************************************************************************)
\* how often a command occurs among the commands a step sent
CountCmd(cmds, c) == Cardinality({i \in 1..Len(cmds) : cmds[i] = c})

Subscribe(p, e) == <<"subscribe", p, Channel(e)>>
Unsubscribe(p, e) == <<"unsubscribe", p, Channel(e)>>

\* after every operation a channel is subscribed iff its event has a listener
SubscribedIffListener ==
    \A p \in Procs, e \in Events : (Channel(e) \in subscribed[p]) <=> (Count(p, e) >= 1)

\* C5 as stated: a step sends subscribe for an event exactly when its listener
\* count goes from 0 to at least 1 and unsubscribe exactly when the count goes
\* from at least 1 to 0, and a channel is subscribed iff its event has a
\* listener.
C5_Original ==
    /\ []SubscribedIffListener
    /\ [][\A p \in Procs, e \in Events :
            /\ (CountCmd(lastOp'.cmds, Subscribe(p, e)) >= 1)
                   <=> (Count(p, e) = 0 /\ Count(p, e)' >= 1)
            /\ (CountCmd(lastOp'.cmds, Unsubscribe(p, e)) >= 1)
                   <=> (Count(p, e) >= 1 /\ Count(p, e)' = 0)]_vars

\* C5 as amended: subscribe is sent exactly on 0 -> 1, once; unsubscribe is
\* sent on every transition from at least 1 to 0, once, and otherwise only by
\* an off on an event that has no listener before and after; a channel is
\* subscribed iff its event has a listener.
C5_RefCount ==
    /\ []SubscribedIffListener
    /\ [][\A p \in Procs, e \in Events :
            /\ (CountCmd(lastOp'.cmds, Subscribe(p, e)) >= 1)
                   <=> (Count(p, e) = 0 /\ Count(p, e)' >= 1)
            /\ CountCmd(lastOp'.cmds, Subscribe(p, e)) <= 1
            /\ (Count(p, e) >= 1 /\ Count(p, e)' = 0)
                   => CountCmd(lastOp'.cmds, Unsubscribe(p, e)) = 1
            /\ CountCmd(lastOp'.cmds, Unsubscribe(p, e)) <= 1
            /\ (CountCmd(lastOp'.cmds, Unsubscribe(p, e)) = 1)
                   => /\ Count(p, e)' = 0
                      /\ Count(p, e) = 0 => lastOp'.op = "off"]_vars

\* two on calls for one new event name, one subscribe; and an off on an event
\* without listeners that sent the redundant unsubscribe
C5_Witness ==
    /\ lastOp.op = "off"
    /\ nRegs = 0
    /\ \E p \in Procs, e \in Events : lastOp.cmds = <<Unsubscribe(p, e)>>

Wrappers(L) == {i \in 1..Len(L) : L[i].wid > 0}

Registered(w) ==
    \E p \in Procs, e \in Events : \E i \in 1..Len(listeners[p][e]) :
        listeners[p][e][i].wid = w

\* C7: the callback of a once registration is invoked at most once, and a
\* wrapper that fired is registered no more; the first message dispatched for
\* the event invokes the callback of every once registration of the event
\* exactly once, so n registrations of one callback give n invocations.
C7_Once ==
    /\ [](\A w \in 1..MaxRegs : fired[w] <= 1 /\ (fired[w] = 1 => ~Registered(w)))
    /\ [][\A p \in Procs :
            (lastOp'.op = "dispatch" /\ inbound'[p] # inbound[p])
                => LET e == Head(inbound[p]).e
                       pre == listeners[p][e]
                   IN  /\ \A i \in Wrappers(pre) :
                              /\ fired[pre[i].wid] = 0
                              /\ fired'[pre[i].wid] = 1
                       /\ Wrappers(listeners'[p][e]) = {}
                       /\ \A fn \in Fns :
                              Cardinality({i \in 1..Len(lastOp'.calls) :
                                  lastOp'.calls[i].fn = fn /\ lastOp'.calls[i].wid > 0})
                                = Cardinality({i \in Wrappers(pre) : pre[i].fn = fn})]_vars

\* two once registrations of one callback were both invoked by one message
C7_Witness ==
    /\ lastOp.op = "dispatch"
    /\ Len(lastOp.calls) = 2
    /\ lastOp.calls[1].fn = lastOp.calls[2].fn
    /\ lastOp.calls[1].wid > 0 /\ lastOp.calls[2].wid > 0
    /\ fired[lastOp.calls[1].wid] = 1 /\ fired[lastOp.calls[2].wid] = 1

\* C8: the handler of a message invokes the listeners registered for the
\* emitted event when it starts, each once, in registration order, with the
\* arguments given to emit.
C8_DispatchOrder ==
    [][\A p \in Procs :
          (lastOp'.op = "dispatch" /\ inbound'[p] # inbound[p])
              => LET m == Head(inbound[p])
                     pre == listeners[p][m.e]
                 IN  lastOp'.calls =
                        [i \in 1..Len(pre) |->
                            [p |-> p, fn |-> pre[i].fn, wid |-> pre[i].wid,
                             args |-> m.args]]]_vars

\* a once wrapper ran before a plain listener in one dispatch
C8_Witness ==
    /\ lastOp.op = "dispatch"
    /\ Len(lastOp.calls) = 2
    /\ lastOp.calls[1].wid > 0 /\ lastOp.calls[2].wid = 0
    /\ Len(lastOp.calls[1].args) = 2

\* C9: off for a callback that is not registered under the event changes no
\* registry and no subscription, and sends no unsubscribe when the event has
\* listeners.
C9_OffNoop ==
    [][\A p \in Procs, e \in Events, fn \in Fns :
          (Off(p, e, fn) /\ LastIndex(listeners[p][e], Plain(fn), Count(p, e)) = 0)
              => /\ UNCHANGED <<listeners, subscribed, inbound, pubq, fired>>
                 /\ Count(p, e) >= 1 => lastOp'.cmds = <<>>]_vars

\* the only registration made is still there after an off that sent nothing
C9_Witness ==
    /\ lastOp.op = "off"
    /\ lastOp.cmds = <<>>
    /\ nRegs = 1
    /\ \E p \in Procs, e \in Events : Count(p, e) = 1

(***************************************************************************)
(* Claims about the key space.                                             *)
(***************************************************************************)
\* the record of a lock name as the store holds it
RecordOf(n) == IF Exists(LockKey(n)) THEN <<store[LockKey(n)]>> ELSE <<>>

\* C4 as stated: the record of a lock name is created only by a successful
\* SET .. PX .. NX of lock, with a TTL, and removed only by a release
\* capability, by unlock or by the store's TTL eviction; a step of set or del
\* leaves it as it is.
C4_LockRecordLifecycle ==
    [][\A n \in LockNames :
          RecordOf(n)' # RecordOf(n)
              => /\ UNCHANGED cacheVars
                 /\ \/ \E c \in Callers :
                          /\ pc[c] = "attempt" /\ pc'[c] = "replied"
                          /\ reply'[c] = "OK"
                          /\ RecordOf(n) = <<>>
                          /\ RecordOf(n)' = <<LockRecord(c)>>
                          /\ LockRecord(c).px > 0
                    \/ \E c \in Callers :
                          pc[c] = "releasing" /\ pc'[c] = "idle" /\ RecordOf(n)' = <<>>
                    \/ upc = "unlocking" /\ upc' = "done" /\ RecordOf(n)' = <<>>
                    \/ /\ HasTTL(LockKey(n)) /\ RecordOf(n)' = <<>>
                       /\ UNCHANGED <<pc, upc>>]_vars

\* a step of the del call in progress
DelStep == cpend' # cpend \/ cpc' # cpc

\* C13 as stated: when del resolves and no key was written meanwhile, no key
\* matching `${prefix}.${pattern}` is left; no step of del changes a key
\* under the prefix that does not match; get of an absent key resolves null.
C13_DelPattern ==
    /\ [][(cpc = "final" /\ cpc' = "idle" /\ cres' = "deleted" /\ ~cdirty)
            => \A key \in DOMAIN store' : ~Glob(CacheKey(ckey), key)]_vars
    /\ [][DelStep
            => \A key \in DOMAIN store :
                  (UnderPrefix(key) /\ ~Glob(CacheKey(ckey), key))
                      => key \in DOMAIN store' /\ store'[key] = store[key]]_vars
    /\ [][(gres = "pending" /\ gres' # "pending" /\ errors' = errors
             /\ ~Exists(CacheKey(gkey)))
            => gres' = "null"]_vars

\* C14: set writes the JSON text of its value under `${prefix}.${key}`
\* whatever was there; a get the store answers resolves with the value of
\* the set that wrote the record it finds, and with null when it finds none.
C14_ReadYourWrite ==
    /\ [][(cres' = "set" /\ nCache' = nCache + 1 /\ UNCHANGED getVars)
            => \E k \in SetKeys \cup MoreSetKeys, v \in CacheVals :
                  /\ DOMAIN store' = DOMAIN store \cup {CacheKey(k)}
                  /\ store'[CacheKey(k)] = [val |-> JsonOf(v), px |-> 0, by |-> "cache"]
                  /\ \A key \in DOMAIN store \ {CacheKey(k)} : store'[key] = store[key]]_vars
    /\ [][(gres = "pending" /\ gres' # "pending" /\ errors' = errors)
            => /\ ~Exists(CacheKey(gkey)) => gres' = "null"
               /\ \A v \in CacheVals :
                     (Exists(CacheKey(gkey)) /\ store[CacheKey(gkey)] = CacheRecord(v))
                         => gres' = "value" /\ gval' = v]_vars

\* a get of k gave the value of the second of two sets
C14_Witness ==
    /\ nCache = 3
    /\ errors = 0
    /\ cpc = "idle" /\ cres = "set"
    /\ gkey = <<"k">> /\ gres = "value" /\ gval = "s"
    /\ DOMAIN store = {CacheKey(<<"k">>)}

\* C16 as stated: a get whose stored text is no JSON ends with a rejection
\* of its promise; the promise is neither resolved nor left pending.
C16_GetInvalidFails ==
    [][(gres = "pending" /\ gres' # "pending" /\ errors' = errors
          /\ Exists(CacheKey(gkey)) /\ ~ValidJson(store[CacheKey(gkey)].val))
         => gres' = "rejected"]_vars

\* C17: a failed KEYS rejects del and leaves the store as it is, with no DEL
\* sent; a failed DEL of a key found rejects del; no step of del puts a key
\* back or changes one that stays; after a failed DEL the last DEL of the
\* argument is not sent.
C17_BestEffort ==
    /\ [][(cpc = "keys" /\ cpc' = "idle")
            => cres' = "rejected" /\ store' = store /\ cpend' = {}]_vars
    /\ [][(cpc = "dels" /\ ~cfail /\ cfail')
            => cres' = "rejected" /\ store' = store]_vars
    /\ [][DelStep
            => \A key \in DOMAIN store' :
                  key \in DOMAIN store /\ store'[key] = store[key]]_vars
    /\ [][cfail => cpc' # "final"]_vars
    /\ [](cfail => cpc = "dels")

\* del("*") removed p.k, the DEL of p.r failed, and every DEL was answered
C17_Witness ==
    /\ cpc = "dels" /\ cpend = {} /\ cfail
    /\ ckey = <<"*">>
    /\ cres = "rejected"
    /\ nCache = 2
    /\ ~Exists(CacheKey(<<"k">>))
    /\ Exists(CacheKey(<<"r">>))

\* C20 as stated: every DEL of del, the last one included, targets a key
\* that starts with `${prefix}.`, and no step of del changes a key that does
\* not.
C20_StaysInNamespace ==
    /\ [](\A key \in cpend : UnderPrefix(key))
    /\ [](cpc = "final" => UnderPrefix(FinalKey))
    /\ [][DelStep
            => \A key \in DOMAIN store :
                  ~UnderPrefix(key)
                      => key \in DOMAIN store' /\ store'[key] = store[key]]_vars

(***************************************************************************)
(* Claims about channel names.                                             *)
(***************************************************************************)
\* C15: for every prefix and every event name, the 'message' handler decodes
\* the channel `${prefix}.${event}` to the event name, also when the event
\* name contains `${prefix}.`.
C15_Inverse == ndone => nlocal = nevent

\* an event name that contains `${prefix}.` was decoded
C15_Witness ==
    /\ ndone
    /\ nlocal = nevent
    /\ \E i \in 1..Len(nevent) : MatchAt(nevent, nprefix \o Dot, i)

====
